---- MODULE Spec2Model ----
(***************************************************************************)
(* Key builder and option factories of eden-tanstack-query.                *)
(*                                                                         *)
(* JavaScript values are tagged records, so that structural equality       *)
(* (toEqual / the cache engine's key hashing) is TLA+ equality:            *)
(*   undefined, null, symbol, boolean, string, number, array, object,      *)
(*   function.  An object is a function from its own enumerable keys to    *)
(*   values; a key bound to undefined is an own key whose value is         *)
(*   Undefined.                                                            *)
(***************************************************************************)
EXTENDS Integers, Sequences, FiniteSets, TLC

\* ------------------------------------------------------------------------
\* Bounds of the model
\* ------------------------------------------------------------------------
MaxKeys == 2
MaxLen == 2
MaxParams == 2
MaxCalls == 2
\* renders of the provider and calls of the hooks in one behaviour
MaxEvents == 4
\* segments a caller's path array holds at most
MaxSegments == 3
\* frames the engine's call stack holds before it throws RangeError
StackLimit == 4

\* ------------------------------------------------------------------------
\* JavaScript values
\* ------------------------------------------------------------------------
Undefined == [t |-> "undefined"]
Null == [t |-> "null"]
skipToken == [t |-> "symbol", d |-> "skipToken"]
Bool(b) == [t |-> "boolean", b |-> b]
Str(s) == [t |-> "string", s |-> s]
Num(n) == [t |-> "number", n |-> n]
Arr(e) == [t |-> "array", e |-> e]
Obj(o) == [t |-> "object", o |-> o]
EmptyMap == [k \in {} |-> Undefined]
NoCall == [t |-> "nocall"]

\* Object.keys(value)
ObjectKeys(value) == DOMAIN value.o

\* key in value, for an object created by an object literal or a rest pattern
HasKey(value, key) == key \in DOMAIN value.o

\* { ...a, ...b }: the entries of b over those of a
Spread(a, b) == [k \in DOMAIN a \cup DOMAIN b |-> IF k \in DOMAIN b THEN b[k] ELSE a[k]]

\* the rest pattern of a destructuring: the own keys not named
Rest(o, named) == [k \in DOMAIN o \ named |-> o[k]]

\* ToBoolean(value)
Truthy(value) ==
    CASE value.t = "undefined" -> FALSE
      [] value.t = "null" -> FALSE
      [] value.t = "boolean" -> value.b
      [] value.t = "string" -> value.s # ""
      [] value.t = "number" -> value.n # 0
      [] OTHER -> TRUE

\* ------------------------------------------------------------------------
\* createEdenTanStackQuery.ts: sanitizer and key builder
\* ------------------------------------------------------------------------
isObject(value) == value.t = "object"

DANGEROUS_KEYS == {"__proto__", "constructor", "prototype"}

\* sanitizeInput returning arrays as they are
RECURSIVE sanitizeInput_ArraysAsIs(_)
sanitizeInput_ArraysAsIs(value) ==
    IF ~isObject(value)
    THEN value
    ELSE Obj([key \in ObjectKeys(value) \ DANGEROUS_KEYS |->
                sanitizeInput_ArraysAsIs(value.o[key])])

\* sanitizeInput leaving out, besides the dangerous keys, the keys whose
\* value is an empty object
RECURSIVE sanitizeInput_DropsEmptyObjects(_)
sanitizeInput_DropsEmptyObjects(value) ==
    IF ~isObject(value)
    THEN IF value.t = "array"
         THEN Arr([i \in DOMAIN value.e |-> sanitizeInput_DropsEmptyObjects(value.e[i])])
         ELSE value
    ELSE Obj([key \in {k \in ObjectKeys(value) \ DANGEROUS_KEYS :
                         value.o[k] # Obj(EmptyMap)} |->
                sanitizeInput_DropsEmptyObjects(value.o[key])])

RECURSIVE sanitizeInput(_)
sanitizeInput(value) ==
    IF ~isObject(value)
    THEN IF value.t = "array"
         THEN Arr([i \in DOMAIN value.e |-> sanitizeInput(value.e[i])])
         ELSE value
    ELSE Obj([key \in ObjectKeys(value) \ DANGEROUS_KEYS |-> sanitizeInput(value.o[key])])

AssignParams_FirstWins(result, params) ==
    Spread(Rest(params, DANGEROUS_KEYS), result)

\* one pass of the outer loop of flattenPathParams: the entries of params
\* whose name is not dangerous are written over result
AssignParams(result, params) ==
    Spread(result, Rest(params, DANGEROUS_KEYS))

RECURSIVE FlattenLoop(_, _)
FlattenLoop(entries, result) ==
    IF entries = <<>>
    THEN result
    ELSE FlattenLoop(Tail(entries), AssignParams(result, Head(entries).params))

flattenPathParams_WithPathIndex(pathParams) ==
    IF ~Truthy(pathParams) \/ Len(pathParams.e) = 0
    THEN Undefined
    ELSE LET result == FlattenLoop(pathParams.e, EmptyMap)
         IN  IF Cardinality(DOMAIN result) > 0
             THEN Obj(Spread(result, "pathIndex" :> Num(pathParams.e[1].pathIndex)))
             ELSE Undefined

flattenPathParams(pathParams) ==
    IF ~Truthy(pathParams) \/ Len(pathParams.e) = 0
    THEN Undefined
    ELSE LET result == FlattenLoop(pathParams.e, EmptyMap)
         IN  IF Cardinality(DOMAIN result) > 0 THEN Obj(result) ELSE Undefined

\* the skipToken branch of getQueryKey
SkipKey(path, flatPathParams) ==
    IF Truthy(flatPathParams)
    THEN Arr(<<path, Obj("pathParams" :> flatPathParams)>>)
    ELSE Arr(<<path>>)

\* InfiniteKey without the test that something remains of the input
InfiniteKey_KeepsEmptyInput(path, inputObj, flatPathParams) ==
    LET rest == Rest(inputObj.o, {"cursor", "direction"})
        meta1 == "type" :> Str("infinite") @@ "input" :> Obj(rest)
        meta2 == IF Truthy(flatPathParams)
                 THEN Spread(meta1, "pathParams" :> flatPathParams)
                 ELSE meta1
    IN  Arr(<<path, Obj(meta2)>>)

\* the infinite-query branch of getQueryKey, taken when cursor or direction
\* is in the sanitized input
InfiniteKey(path, inputObj, flatPathParams) ==
    LET rest == Rest(inputObj.o, {"cursor", "direction"})
        meta0 == "type" :> Str("infinite")
        meta1 == IF Cardinality(DOMAIN rest) > 0
                 THEN Spread(meta0, "input" :> Obj(rest))
                 ELSE meta0
        meta2 == IF Truthy(flatPathParams)
                 THEN Spread(meta1, "pathParams" :> flatPathParams)
                 ELSE meta1
    IN  Arr(<<path, Obj(meta2)>>)

\* GeneralKey writing the type only when there is no input
GeneralKey_TypeOnlyWithoutInput(path, input, type, flatPathParams) ==
    LET meta0 == IF Truthy(flatPathParams)
                 THEN "pathParams" :> flatPathParams
                 ELSE EmptyMap
        meta1 == IF input # Undefined
                 THEN Spread(meta0, "input" :> input)
                 ELSE IF Truthy(type) /\ type # Str("any")
                      THEN Spread(meta0, "type" :> type)
                      ELSE meta0
    IN  IF Cardinality(DOMAIN meta1) > 0 THEN Arr(<<path, Obj(meta1)>>) ELSE Arr(<<path>>)

\* GeneralKey returning the bare path when there is neither input nor path
\* params, before looking at the type
GeneralKey_BarePathWithoutInput(path, input, type, flatPathParams) ==
    LET meta0 == IF Truthy(flatPathParams)
                 THEN "pathParams" :> flatPathParams
                 ELSE EmptyMap
        meta1 == IF input # Undefined
                 THEN Spread(meta0, "input" :> input)
                 ELSE meta0
        meta2 == IF Truthy(type) /\ type # Str("any")
                 THEN Spread(meta1, "type" :> type)
                 ELSE meta1
    IN  IF Cardinality(DOMAIN meta1) > 0 THEN Arr(<<path, Obj(meta2)>>) ELSE Arr(<<path>>)

\* GeneralKey without the final test that the meta holds something
GeneralKey_AlwaysMeta(path, input, type, flatPathParams) ==
    LET meta0 == IF Truthy(flatPathParams)
                 THEN "pathParams" :> flatPathParams
                 ELSE EmptyMap
        meta1 == IF input # Undefined
                 THEN Spread(meta0, "input" :> input)
                 ELSE meta0
        meta2 == IF Truthy(type) /\ type # Str("any")
                 THEN Spread(meta1, "type" :> type)
                 ELSE meta1
    IN  Arr(<<path, Obj(meta2)>>)

GeneralKey_WritesAnyType(path, input, type, flatPathParams) ==
    LET meta0 == IF Truthy(flatPathParams)
                 THEN "pathParams" :> flatPathParams
                 ELSE EmptyMap
        meta1 == IF input # Undefined
                 THEN Spread(meta0, "input" :> input)
                 ELSE meta0
        meta2 == IF Truthy(type)
                 THEN Spread(meta1, "type" :> type)
                 ELSE meta1
    IN  IF Cardinality(DOMAIN meta2) > 0 THEN Arr(<<path, Obj(meta2)>>) ELSE Arr(<<path>>)

\* the general branch of getQueryKey
GeneralKey(path, input, type, flatPathParams) ==
    LET meta0 == IF Truthy(flatPathParams)
                 THEN "pathParams" :> flatPathParams
                 ELSE EmptyMap
        meta1 == IF input # Undefined
                 THEN Spread(meta0, "input" :> input)
                 ELSE meta0
        meta2 == IF Truthy(type) /\ type # Str("any")
                 THEN Spread(meta1, "type" :> type)
                 ELSE meta1
    IN  IF Cardinality(DOMAIN meta2) > 0 THEN Arr(<<path, Obj(meta2)>>) ELSE Arr(<<path>>)

\* getQueryKey without the skipToken branch: the sentinel is taken for an
\* absent input
getQueryKey_SkipAsUndefined(opts) ==
    LET flatPathParams == flattenPathParams(opts.pathParams)
        input == IF opts.input = skipToken THEN Undefined ELSE sanitizeInput(opts.input)
    IN  IF /\ opts.type = Str("infinite")
           /\ isObject(input)
           /\ (HasKey(input, "cursor") \/ HasKey(input, "direction"))
        THEN InfiniteKey(opts.path, input, flatPathParams)
        ELSE GeneralKey(opts.path, input, opts.type, flatPathParams)

getQueryKey(opts) ==
    LET flatPathParams == flattenPathParams(opts.pathParams)
    IN  IF opts.input = skipToken
        THEN SkipKey(opts.path, flatPathParams)
        ELSE LET input == sanitizeInput(opts.input)
             IN  IF /\ opts.type = Str("infinite")
                    /\ isObject(input)
                    /\ (HasKey(input, "cursor") \/ HasKey(input, "direction"))
                 THEN InfiniteKey(opts.path, input, flatPathParams)
                 ELSE GeneralKey(opts.path, input, opts.type, flatPathParams)

getMutationKey_Unwrapped(opts) == opts.path

getMutationKey(opts) == Arr(<<opts.path>>)

\* ------------------------------------------------------------------------
\* options/queryOptions.ts: query options factory
\* ------------------------------------------------------------------------

RECURSIVE Join_NoSeparator(_, _)
Join_NoSeparator(segments, sep) ==
    IF segments = <<>>
    THEN ""
    ELSE Head(segments).s \o Join_NoSeparator(Tail(segments), sep)

\* Array.prototype.join on an array of strings
RECURSIVE Join(_, _)
Join(segments, sep) ==
    IF segments = <<>>
    THEN ""
    ELSE IF Len(segments) = 1
         THEN Head(segments).s
         ELSE Head(segments).s \o sep \o Join(Tail(segments), sep)

\* value?.key
OptionalGet(value, key) ==
    IF value.t = "object" /\ key \in DOMAIN value.o THEN value.o[key] ELSE Undefined

QueryFnClosure_SanitizedInput(args) ==
    [t |-> "function", name |-> "queryFn",
     env |-> [input |-> sanitizeInput(args.input), opts |-> args.opts, fetchFn |-> args.fetch]]

\* the closure edenQueryOptions creates: the function with what it captured
QueryFnClosure(args) ==
    [t |-> "function", name |-> "queryFn",
     env |-> [input |-> args.input, opts |-> args.opts, fetchFn |-> args.fetch]]

\* edenQueryOptions handing out the wrapper whatever the input
edenQueryOptions_AlwaysQueryFn(args) ==
    LET inputIsSkipToken == args.input = skipToken
        queryKey == getQueryKey([path |-> args.path,
                                 input |-> IF inputIsSkipToken THEN Undefined ELSE args.input,
                                 pathParams |-> args.pathParams,
                                 type |-> Str("query")])
        optsOrEmpty == IF args.opts \in {Undefined, Null} THEN EmptyMap ELSE args.opts.o
        tanstackOpts == Rest(optsOrEmpty, {"eden"})
        base == Spread(tanstackOpts,
                       "queryKey" :> queryKey @@ "queryFn" :> QueryFnClosure(args))
    IN  Obj(Spread(base, "eden" :> Obj("path" :> Str(Join(args.path.e, ".")))))

edenQueryOptions_OverridesWin(args) ==
    LET inputIsSkipToken == args.input = skipToken
        queryKey == getQueryKey([path |-> args.path,
                                 input |-> IF inputIsSkipToken THEN Undefined ELSE args.input,
                                 pathParams |-> args.pathParams,
                                 type |-> Str("query")])
        queryFn == QueryFnClosure(args)
        optsOrEmpty == IF args.opts \in {Undefined, Null} THEN EmptyMap ELSE args.opts.o
        base == "queryKey" :> queryKey
                @@ "queryFn" :> (IF inputIsSkipToken THEN skipToken ELSE queryFn)
                @@ "eden" :> Obj("path" :> Str(Join(args.path.e, ".")))
    IN  Obj(Spread(base, optsOrEmpty))

edenQueryOptions(args) ==
    LET inputIsSkipToken == args.input = skipToken
        queryKey == getQueryKey([path |-> args.path,
                                 input |-> IF inputIsSkipToken THEN Undefined ELSE args.input,
                                 pathParams |-> args.pathParams,
                                 type |-> Str("query")])
        queryFn == QueryFnClosure(args)
        optsOrEmpty == IF args.opts \in {Undefined, Null} THEN EmptyMap ELSE args.opts.o
        tanstackOpts == Rest(optsOrEmpty, {"eden"})
        base == Spread(tanstackOpts,
                       "queryKey" :> queryKey
                       @@ "queryFn" :> (IF inputIsSkipToken THEN skipToken ELSE queryFn))
    IN  Obj(Spread(base, "eden" :> Obj("path" :> Str(Join(args.path.e, ".")))))

QueryFnFetchArgs_AlwaysSignal(fn, context) ==
    [fn |-> fn.env.fetchFn, input |-> fn.env.input, signal |-> context.signal]

\* the body of queryFn up to the call of fetch: the arguments fetch receives
QueryFnFetchArgs(fn, context) ==
    LET actualInput == fn.env.input
        signal == IF Truthy(OptionalGet(OptionalGet(fn.env.opts, "eden"), "abortOnUnmount"))
                  THEN context.signal
                  ELSE Undefined
    IN  [fn |-> fn.env.fetchFn, input |-> actualInput, signal |-> signal]

\* the calls of fetchFn one invocation of queryFn makes: the one at
\* `await fetchFn(actualInput, signal)`
QueryFnFetchCalls(fn, context) == <<QueryFnFetchArgs(fn, context)>>

FactoryFetchCalls_Eager(path, input, opts) ==
    <<[fn |-> [t |-> "function", name |-> "fetch"], input |-> input, signal |-> Undefined]>>

\* the calls of fetchFn the body of edenQueryOptions makes: it only closes
\* over fetchFn
FactoryFetchCalls(path, input, opts) == <<>>

QueryFnSettle_SwallowsRejection(fetchOutcome) ==
    IF fetchOutcome.status = "rejected"
    THEN [status |-> "fulfilled", value |-> Undefined]
    ELSE fetchOutcome

\* `const result = await fetchFn(...); return result`: how queryFn settles,
\* given how the promise of fetch settled
QueryFnSettle(fetchOutcome) == fetchOutcome

\* ------------------------------------------------------------------------
\* options/queryOptions.ts before path-parameter support
\* ------------------------------------------------------------------------

\* getQueryKey of keys/queryKey.ts before the change: the key builder
\* without the pathParams option
getQueryKeyLegacy(opts) ==
    getQueryKey([path |-> opts.path, input |-> opts.input,
                 pathParams |-> Undefined, type |-> opts.type])

edenQueryOptionsLegacy_NoType(args) ==
    LET inputIsSkipToken == args.input = skipToken
        queryKey == getQueryKeyLegacy([path |-> args.path,
                                       input |-> IF inputIsSkipToken THEN Undefined ELSE args.input,
                                       type |-> Undefined])
        optsOrEmpty == IF args.opts \in {Undefined, Null} THEN EmptyMap ELSE args.opts.o
    IN  Obj(Spread(optsOrEmpty,
                   "queryKey" :> queryKey
                   @@ "queryFn" :> (IF inputIsSkipToken THEN skipToken ELSE QueryFnClosure(args))
                   @@ "eden" :> Obj("path" :> Str(Join(args.path.e, ".")))))

\* the earlier edenQueryOptions: `{...opts, queryKey, queryFn, eden}`
edenQueryOptionsLegacy(args) ==
    LET inputIsSkipToken == args.input = skipToken
        queryKey == getQueryKeyLegacy([path |-> args.path,
                                       input |-> IF inputIsSkipToken THEN Undefined ELSE args.input,
                                       type |-> Str("query")])
        queryFn == QueryFnClosure(args)
        optsOrEmpty == IF args.opts \in {Undefined, Null} THEN EmptyMap ELSE args.opts.o
    IN  Obj(Spread(optsOrEmpty,
                   "queryKey" :> queryKey
                   @@ "queryFn" :> (IF inputIsSkipToken THEN skipToken ELSE queryFn)
                   @@ "eden" :> Obj("path" :> Str(Join(args.path.e, ".")))))

\* ------------------------------------------------------------------------
\* options/mutationOptions.ts: mutation options factory
\* ------------------------------------------------------------------------

\* the closure edenMutationOptions creates: the function with what it captured
MutationFnClosure(args) ==
    [t |-> "function", name |-> "mutationFn", env |-> [mutate |-> args.mutate]]

edenMutationOptions(args) ==
    LET mutationKey == getMutationKey([path |-> args.path])
        mutationFn == MutationFnClosure(args)
        outputOpts == IF args.opts \in {Undefined, Null} THEN EmptyMap ELSE args.opts.o
    IN  Obj(Spread(outputOpts,
                   "mutationKey" :> mutationKey
                   @@ "mutationFn" :> mutationFn
                   @@ "eden" :> Obj("path" :> Str(Join(args.path.e, ".")))))

MutationFnMutateArgs_DefaultsEmpty(fn, arg) ==
    [fn |-> fn.env.mutate, input |-> IF arg = Undefined THEN Obj(EmptyMap) ELSE arg]

\* the body of mutationFn up to the call of mutate: the argument mutate
\* receives
MutationFnMutateArgs(fn, arg) ==
    [fn |-> fn.env.mutate, input |-> arg]

\* the calls of mutate one invocation of mutationFn makes
MutationFnMutateCalls(fn, arg) == <<MutationFnMutateArgs(fn, arg)>>

\* the calls of mutate the body of edenMutationOptions makes: it only closes
\* over mutate
FactoryMutateCalls(path, mutate, opts) == <<>>

MutationFnSettle_WrapsRejection(mutateOutcome) ==
    IF mutateOutcome.status = "rejected"
    THEN [status |-> "rejected", reason |-> Obj("cause" :> mutateOutcome.reason)]
    ELSE mutateOutcome

\* `return await mutate(input)`: how mutationFn settles, given how the
\* promise of mutate settled
MutationFnSettle(mutateOutcome) == mutateOutcome

\* ------------------------------------------------------------------------
\* context.tsx: provider and hooks of one createEdenContext call
\* ------------------------------------------------------------------------

\* the object createEdenOptionsProxy returns: a new one on every call
createEdenOptionsProxy(id, options) ==
    [t |-> "proxy", id |-> id,
     client |-> options.client, queryClient |-> options.queryClient]

EdenProviderRender_NoMemo(cell, props, count) ==
    [memo |-> [deps |-> <<props.client, props.queryClient>>,
               value |-> createEdenOptionsProxy(count + 1, props)],
     count |-> count + 1]

\* one render of EdenProvider: React.useMemo keeps the proxy of the last
\* render unless client or queryClient is another object; cell is the memo
\* of the component instance (none at its first render), count the number of
\* proxies created so far
EdenProviderRender(cell, props, count) ==
    LET deps == <<props.client, props.queryClient>>
    IN  IF cell = NoCall \/ cell.deps # deps
        THEN [memo |-> [deps |-> deps, value |-> createEdenOptionsProxy(count + 1, props)],
              count |-> count + 1]
        ELSE [memo |-> cell, count |-> count]

\* React.useContext for a context of the factory `owner`: the value of the
\* enclosing provider of that factory, the default null without one
UseContext(owner, provider, provided) ==
    IF provider # NoCall /\ provider.factory = owner THEN provided ELSE Null

Thrown(message) == [status |-> "thrown", error |-> [name |-> "Error", message |-> message]]
Returned(value) == [status |-> "returned", value |-> value]

useEden_ReturnsNull(proxy) == Returned(proxy)

useEden(proxy) ==
    IF ~Truthy(proxy)
    THEN Thrown("useEden must be used within an EdenProvider. "
                \o "Make sure to wrap your app with <EdenProvider>.")
    ELSE Returned(proxy)

useEdenClient(client) ==
    IF ~Truthy(client)
    THEN Thrown("useEdenClient must be used within an EdenProvider. "
                \o "Make sure to wrap your app with <EdenProvider>.")
    ELSE Returned(client)

\* ------------------------------------------------------------------------
\* Inputs of the model
\* ------------------------------------------------------------------------
Paths == {Arr(<<Str("api"), Str("users"), Str("get")>>), Arr(<<Str("hello")>>)}

Keys == {"limit", "cursor", "direction"} \cup DANGEROUS_KEYS
LeafValues == {Str("abc"), Num(10)}

\* plain objects of at most MaxKeys keys with primitive values
PlainObjects ==
    UNION {{Obj(o) : o \in [S -> LeafValues]} :
             S \in {S \in SUBSET Keys : Cardinality(S) <= MaxKeys}}

\* objects one level deeper, and objects with a key bound to undefined
InnerValues ==
    {Undefined, Obj(EmptyMap), Obj("__proto__" :> Str("abc")),
     Obj("cursor" :> Str("abc") @@ "limit" :> Num(10)),
     Arr(<<Obj("prototype" :> Num(10) @@ "limit" :> Num(10))>>)}
NestedObjects == {Obj(k :> v) : k \in {"limit", "cursor", "constructor"}, v \in InnerValues}

ArrayElems ==
    {Str("abc"), Obj("cursor" :> Str("abc")),
     Obj("__proto__" :> Str("abc") @@ "limit" :> Num(10))}
ArrayInputs == UNION {{Arr(e) : e \in [1..n -> ArrayElems]} : n \in 0..MaxLen}

Primitives == {Undefined, Null, Str("abc"), Num(10)}

Inputs == Primitives \cup {skipToken} \cup PlainObjects \cup NestedObjects \cup ArrayInputs

ParamMaps == {EmptyMap, "id" :> Str("1"), "id" :> Str("2") @@ "__proto__" :> Str("x")}
PositionedParams(n) == {[pathIndex |-> n - 1, params |-> p] : p \in ParamMaps}
ParamSeqs ==
    UNION {{e \in [1..n -> UNION {PositionedParams(i) : i \in 1..n}] :
              \A i \in 1..n : e[i].pathIndex = i - 1} : n \in 0..MaxParams}
PathParamsArgs == {Undefined} \cup {Arr(e) : e \in ParamSeqs}

\* params maps that share names, and entries whose pathIndex is not their
\* position in the array
FlatParamMaps ==
    {[n \in S |-> full[n]] :
        S \in SUBSET {"id", "slug", "constructor"},
        full \in {"id" :> Str("1") @@ "slug" :> Str("a") @@ "constructor" :> Str("x"),
                  "id" :> Str("2") @@ "slug" :> Str("a") @@ "constructor" :> Str("x")}}
FlatEntries == {[pathIndex |-> n, params |-> p] : n \in {0, 1}, p \in FlatParamMaps}
FlatSeqs == UNION {[1..n -> FlatEntries] : n \in 0..MaxParams}

\* path parameters whose values are objects and arrays
NestedParamArgs ==
    {Arr(<<[pathIndex |-> 0,
            params |-> "filter" :> Obj("__proto__" :> Str("x") @@ "role" :> Str("a"))]>>),
     Arr(<<[pathIndex |-> 0,
            params |-> "ids" :> Arr(<<Obj("constructor" :> Str("x"))>>) @@ "prototype" :> Str("x")]>>),
     Arr(<<[pathIndex |-> 0, params |-> "ids" :> Arr(<<Str("1"), Str("2")>>)]>>)}

\* entries that give the same parameters at other positions and in other
\* splits
SplitEntries ==
    {[pathIndex |-> 0, params |-> "id" :> Str("1")],
     [pathIndex |-> 1, params |-> "id" :> Str("1")],
     [pathIndex |-> 0, params |-> "id" :> Str("2")],
     [pathIndex |-> 1, params |-> "slug" :> Str("a")],
     [pathIndex |-> 0, params |-> "id" :> Str("1") @@ "slug" :> Str("a")],
     [pathIndex |-> 0, params |-> "__proto__" :> Str("x")]}
SplitSeqs == UNION {[1..n -> SplitEntries] : n \in 0..MaxParams}
SplitArgs == {Undefined} \cup {Arr(e) : e \in SplitSeqs}

QueryTypes == {Undefined, Str("query"), Str("infinite"), Str("any")}

fetchFn == [t |-> "function", name |-> "fetch"]

OptsArgs ==
    {Undefined,
     Obj("staleTime" :> Num(5000)),
     Obj("eden" :> Obj("abortOnUnmount" :> Bool(TRUE)) @@ "staleTime" :> Num(5000)),
     Obj("eden" :> Obj("abortOnUnmount" :> Bool(FALSE)))}

\* mutate callbacks: one that answers {id: "1", ...body}, one that rejects
MutateFns ==
    {[t |-> "function", name |-> "create"], [t |-> "function", name |-> "error"]}

\* how the promise of a mutate callback settles for an argument
MutateOutcome(fn, arg) ==
    IF fn.name = "create"
    THEN [status |-> "fulfilled",
          value |-> Obj(Spread("id" :> Str("1"),
                               IF isObject(arg) THEN arg.o ELSE EmptyMap))]
    ELSE [status |-> "rejected",
          reason |-> Obj("status" :> Num(400) @@ "message" :> Str("Bad Request"))]

MutationOptsArgs ==
    {Undefined,
     Obj("retry" :> Num(3)),
     Obj("mutationKey" :> Arr(<<Str("custom")>>) @@ "eden" :> Obj(EmptyMap))}

MutationInputs == {Undefined, Obj(EmptyMap), Obj("name" :> Str("J"))}

\* overrides a caller may pass, fields named like the library-set ones
\* included
customFn == [t |-> "function", name |-> "custom"]

OverrideArgs ==
    {Undefined,
     Obj("staleTime" :> Num(5000) @@ "refetchOnWindowFocus" :> Bool(FALSE)),
     Obj("staleTime" :> Num(5000) @@ "eden" :> Obj("abortOnUnmount" :> Bool(TRUE))),
     Obj("queryKey" :> Arr(<<Str("custom")>>) @@ "queryFn" :> customFn
         @@ "eden" :> Obj("path" :> Str("custom")) @@ "retry" :> Num(3))}

MutationOverrideArgs ==
    {Undefined,
     Obj("onSuccess" :> customFn),
     Obj("mutationKey" :> Arr(<<Str("custom")>>) @@ "mutationFn" :> customFn
         @@ "eden" :> Obj("path" :> Str("custom")) @@ "retry" :> Num(3))}

\* createEdenContext calls, and the objects a provider may be given
Factories == {1, 2}
Clients == {[t |-> "client", id |-> 1], [t |-> "client", id |-> 2]}
QueryClients == {[t |-> "QueryClient", id |-> 1], [t |-> "QueryClient", id |-> 2]}

Signals == {[t |-> "AbortSignal", id |-> 1], [t |-> "AbortSignal", id |-> 2]}

FetchOutcomes ==
    {[status |-> "fulfilled", value |-> Str("world")],
     [status |-> "rejected", reason |-> Str("Server error")]}

\* ------------------------------------------------------------------------
\* State
\* ------------------------------------------------------------------------
VARIABLES
    path,        \* the path of the route the calls are about
    input,       \* the input the caller passes
    pathParams,  \* the PositionedParam array the caller passes, or undefined
    keyType,     \* the type passed to the last getQueryKey call
    key,         \* what the last getQueryKey call returned
    optsArg,     \* the opts passed to the last edenQueryOptions call
    options,     \* what the last edenQueryOptions call returned
    calls,       \* the invocations of options.queryFn so far
    fetchLog,    \* the calls the fetch callback has received
    sanitized,   \* what sanitizeInput returned for input
    sanitizedTwice, \* what sanitizeInput returned for that result
    mutationKey, \* what the last getMutationKey call returned
    mutation,    \* what the last edenMutationOptions call returned
    mutCalls,    \* the invocations of mutation.mutationFn so far
    mutateLog,   \* the calls the mutate callback has received
    heap,        \* the caller's object graph: address -> object or array
    stack,       \* the call stack of sanitizeInput over the heap
    outcome,     \* how the sanitizeInput call over the heap ended
    mutationOptsArg, \* the opts passed to the last edenMutationOptions call
    pathParams2, \* the PositionedParam array of a second getQueryKey call
    keyType2,    \* the type passed to the second getQueryKey call
    key2,        \* what the second getQueryKey call returned
    providerProps, \* the props of the rendered EdenProvider, or none
    memo,        \* the useMemo cell of EdenProvider: dependencies and proxy
    proxyCount,  \* how many proxies createEdenOptionsProxy has created
    hookLog,     \* the renders of the provider and the calls of the hooks, in order
    keyRefs,     \* a returned key as references into the caller's heap
    keySnapshot, \* the value of that key when it was returned
    legacyOptions, \* what the earlier edenQueryOptions returned
    legacyCalls  \* the invocations of its queryFn

queryVars == <<keyType, key, optsArg, options, calls, fetchLog>>
sanVars == <<sanitized, sanitizedTwice>>
mutVars == <<mutationKey, mutation, mutCalls, mutateLog, mutationOptsArg>>
heapVars == <<heap, stack, outcome>>

relVars == <<pathParams2, keyType2, key2>>
ctxVars == <<providerProps, memo, proxyCount, hookLog>>
aliasVars == <<keyRefs, keySnapshot>>
legacyVars == <<legacyOptions, legacyCalls>>
restVars == <<relVars, ctxVars, aliasVars, legacyVars>>

vars == <<path, input, pathParams, queryVars, sanVars, mutVars, heapVars, restVars>>

NoHeap ==
    /\ heap = <<>>
    /\ stack = <<>>
    /\ outcome = NoCall

NoResults ==
    /\ keyType = NoCall
    /\ key = NoCall
    /\ optsArg = NoCall
    /\ options = NoCall
    /\ calls = <<>>
    /\ fetchLog = <<>>
    /\ sanitized = NoCall
    /\ sanitizedTwice = NoCall
    /\ mutationKey = NoCall
    /\ mutation = NoCall
    /\ mutCalls = <<>>
    /\ mutateLog = <<>>
    /\ mutationOptsArg = NoCall
    /\ pathParams2 = NoCall
    /\ keyType2 = NoCall
    /\ key2 = NoCall
    /\ providerProps = NoCall
    /\ memo = NoCall
    /\ proxyCount = 0
    /\ hookLog = <<>>
    /\ keyRefs = NoCall
    /\ keySnapshot = NoCall
    /\ legacyOptions = NoCall
    /\ legacyCalls = <<>>

\* the key builder and the factory over all inputs
Init ==
    /\ path \in Paths
    /\ input \in Inputs
    /\ pathParams \in PathParamsArgs
    /\ NoResults
    /\ NoHeap

FnInputs ==
    {Undefined, skipToken, Str("abc"),
     Obj("limit" :> Num(10) @@ "cursor" :> Str("abc")),
     Obj("__proto__" :> Str("abc") @@ "limit" :> Num(10))}

\* the factory and the cache engine invoking what it built
InitFn ==
    /\ path \in Paths
    /\ input \in FnInputs
    /\ pathParams \in {Undefined, Arr(<<[pathIndex |-> 0, params |-> "id" :> Str("1")]>>)}
    /\ NoResults
    /\ NoHeap

\* the key builder over path-parameter arrays of every shape
InitFlat ==
    /\ path \in {Arr(<<Str("hello")>>)}
    /\ input \in {Undefined, skipToken, Obj("limit" :> Num(10) @@ "cursor" :> Str("abc"))}
    /\ pathParams \in {Undefined} \cup {Arr(e) : e \in FlatSeqs} \cup NestedParamArgs
    /\ NoResults
    /\ NoHeap

\* inputs with and without cursor fields, for keys built twice
TypeInputs ==
    {Undefined, skipToken, Str("abc"), Obj(EmptyMap),
     Obj("limit" :> Num(10)),
     Obj("cursor" :> Str("abc")),
     Obj("limit" :> Num(10) @@ "direction" :> Str("forward")),
     Obj("__proto__" :> Str("abc") @@ "limit" :> Num(10)),
     Arr(<<Obj("cursor" :> Str("abc"))>>)}

\* the key builder called twice with the same path, input and pathParams
InitType ==
    /\ path \in {Arr(<<Str("hello")>>)}
    /\ input \in TypeInputs
    /\ pathParams \in {Undefined, Arr(<<[pathIndex |-> 0, params |-> "id" :> Str("1")]>>)}
    /\ NoResults
    /\ NoHeap

\* the two factories over overrides of every kind
InitOpts ==
    /\ path \in Paths \cup {Arr(<<Str("users"), Str("get")>>)}
    /\ input \in {Undefined, skipToken, Obj("limit" :> Num(10))}
    /\ pathParams \in {Undefined, Arr(<<[pathIndex |-> 0, params |-> "id" :> Str("123")]>>)}
    /\ NoResults
    /\ NoHeap

\* a component tree without a provider
InitCtx ==
    /\ path \in {Arr(<<Str("hello")>>)}
    /\ input = Undefined
    /\ pathParams = Undefined
    /\ NoResults
    /\ NoHeap

\* the key builder called twice with the same path, input and type
InitSplit ==
    /\ path \in {Arr(<<Str("hello")>>)}
    /\ input \in {Undefined, Obj("limit" :> Num(10) @@ "cursor" :> Str("abc"))}
    /\ pathParams \in SplitArgs
    /\ NoResults
    /\ NoHeap

\* both versions of the factory, called without pathParams
InitLegacy ==
    /\ path \in Paths
    /\ input \in FnInputs
    /\ pathParams = Undefined
    /\ NoResults
    /\ NoHeap

\* values nested three deep, for the sanitizer alone
SanInputs ==
    Inputs
    \cup {Obj(k :> v) : k \in {"limit", "prototype"}, v \in NestedObjects \cup ArrayInputs}
    \cup {Arr(<<v>>) : v \in NestedObjects}

\* the sanitizer over all values
InitSan ==
    /\ path \in {Arr(<<Str("hello")>>)}
    /\ input \in SanInputs
    /\ pathParams = Undefined
    /\ NoResults
    /\ NoHeap

\* getQueryKey's call sanitizeInput(opts.input)
SanitizeInput ==
    /\ sanitized = NoCall
    /\ sanitized' = sanitizeInput(input)
    /\ UNCHANGED <<path, input, pathParams, queryVars, sanitizedTwice, mutVars, heapVars, restVars>>

\* a sanitized value is sanitized again (a key built from the input of a key)
SanitizeAgain ==
    /\ sanitized # NoCall
    /\ sanitizedTwice = NoCall
    /\ sanitizedTwice' = sanitizeInput(sanitized)
    /\ UNCHANGED <<path, input, pathParams, queryVars, sanitized, mutVars, heapVars, restVars>>

\* ---- sanitizeInput run over the caller's object graph ----
\* Objects and arrays are held by reference, so a field may refer to the
\* object that holds it; the recursion is followed call by call.
Ref(a) == [t |-> "ref", a |-> a]

HeapAddrs == {1, 2}

HeapCells == {Str("abc")} \cup {Ref(a) : a \in HeapAddrs}

\* Object.keys order of the objects of the graph
HeapKeyOrder == <<"__proto__", "self">>

HeapNodes ==
    {[t |-> "object", o |-> o] :
        o \in UNION {[ks -> HeapCells] : ks \in SUBSET {"__proto__", "self"}}}
    \cup {[t |-> "array", e |-> e] : e \in {<<>>} \cup {<<c>> : c \in HeapCells}}

Heaps == [HeapAddrs -> HeapNodes]

\* the frame of one call sanitizeInput(cell): what is left to visit and
\* the result built so far
SanitizeFrame(cell, graph) ==
    IF cell.t # "ref"
        THEN [value |-> cell, todo |-> <<>>, result |-> cell]
    ELSE IF graph[cell.a].t = "array"
        THEN [value |-> cell,
              todo |-> [i \in DOMAIN graph[cell.a].e |-> i],
              result |-> Arr(<<>>)]
    ELSE [value |-> cell,
          todo |-> SelectSeq(HeapKeyOrder, LAMBDA k : k \in DOMAIN graph[cell.a].o),
          result |-> Obj(EmptyMap)]

\* the cell a frame visits next
NextCell(frame, graph) ==
    IF graph[frame.value.a].t = "array"
        THEN graph[frame.value.a].e[Head(frame.todo)]
        ELSE graph[frame.value.a].o[Head(frame.todo)]

\* the caller's frame after a recursive call returned v
Deliver(frame, v) ==
    [frame EXCEPT
        !.todo = Tail(frame.todo),
        !.result = IF frame.result.t = "array"
                       THEN Arr(Append(frame.result.e, v))
                       ELSE Obj(Spread(frame.result.o, Head(frame.todo) :> v))]

Top == stack[Len(stack)]

\* the graph a caller holds, before any call
InitHeap ==
    /\ path \in {Arr(<<Str("hello")>>)}
    /\ input = Ref(1)
    /\ pathParams = Undefined
    /\ NoResults
    /\ heap \in Heaps
    /\ stack = <<>>
    /\ outcome = NoCall

\* getQueryKey calls sanitizeInput(opts.input)
SanitizeCall ==
    /\ outcome = NoCall
    /\ stack = <<>>
    /\ stack' = <<SanitizeFrame(input, heap)>>
    /\ UNCHANGED <<path, input, pathParams, queryVars, sanVars, mutVars, heap, outcome, restVars>>

\* the loop skips a dangerous key without visiting its value
SanitizeSkipKey ==
    /\ stack # <<>>
    /\ Top.todo # <<>>
    /\ Top.result.t = "object"
    /\ Head(Top.todo) \in DANGEROUS_KEYS
    /\ stack' = [stack EXCEPT ![Len(stack)].todo = Tail(Top.todo)]
    /\ UNCHANGED <<path, input, pathParams, queryVars, sanVars, mutVars, heap, outcome, restVars>>

\* the loop or map calls sanitizeInput on the next value
SanitizeRecurse ==
    /\ stack # <<>>
    /\ Top.todo # <<>>
    /\ Top.result.t = "object" => Head(Top.todo) \notin DANGEROUS_KEYS
    /\ Len(stack) < StackLimit
    /\ stack' = Append(stack, SanitizeFrame(NextCell(Top, heap), heap))
    /\ UNCHANGED <<path, input, pathParams, queryVars, sanVars, mutVars, heap, outcome, restVars>>

\* the same call when the engine's call stack is full: RangeError
SanitizeOverflow ==
    /\ stack # <<>>
    /\ Top.todo # <<>>
    /\ Top.result.t = "object" => Head(Top.todo) \notin DANGEROUS_KEYS
    /\ Len(stack) >= StackLimit
    /\ stack' = <<>>
    /\ outcome' = [status |-> "thrown", error |-> "RangeError"]
    /\ UNCHANGED <<path, input, pathParams, queryVars, sanVars, mutVars, heap, restVars>>

\* a call returns: to its caller, or to getQueryKey
SanitizeReturn ==
    /\ stack # <<>>
    /\ Top.todo = <<>>
    /\ IF Len(stack) = 1
          THEN /\ stack' = <<>>
               /\ outcome' = [status |-> "returned", value |-> Top.result]
          ELSE /\ stack' = [SubSeq(stack, 1, Len(stack) - 1) EXCEPT
                               ![Len(stack) - 1] = Deliver(stack[Len(stack) - 1], Top.result)]
               /\ UNCHANGED outcome
    /\ UNCHANGED <<path, input, pathParams, queryVars, sanVars, mutVars, heap, restVars>>

\* ---- keys built from objects the caller keeps and changes ----
\* The caller's path array, input object and params objects live in the
\* heap and are passed by reference. What a call allocates itself (the key
\* array, the meta, the copy sanitizeInput makes, the flattened params
\* object) is given by value; what it stores without copying stays a
\* reference.
AliasHeaps ==
    {<<Arr(<<Str("users"), Str("get")>>), inputNode, paramsNode, Obj("role" :> Str("a"))>> :
        inputNode \in {Obj("limit" :> Num(10) @@ "__proto__" :> Str("abc")),
                       Obj("cursor" :> Str("abc"))},
        paramsNode \in {Obj("id" :> Str("1")), Obj("filter" :> Ref(4))}}

\* the value a reference stands for in a heap, references followed
RECURSIVE ResolveRefs(_, _)
ResolveRefs(h, value) ==
    CASE value.t = "ref" -> ResolveRefs(h, h[value.a])
      [] value.t = "array" -> Arr([i \in DOMAIN value.e |-> ResolveRefs(h, value.e[i])])
      [] value.t = "object" -> Obj([name \in DOMAIN value.o |-> ResolveRefs(h, value.o[name])])
      [] OTHER -> value

\* the PositionedParam array as flattenPathParams reads it: the entries of
\* each params object, object values still by reference
ParamsRead(h, params) ==
    IF params = Undefined THEN Undefined
    ELSE Arr([i \in DOMAIN params.e |->
                [pathIndex |-> params.e[i].pathIndex, params |-> h[params.e[i].params.a].o]])

\* the input as sanitizeInput reads it: it copies every object and array it
\* walks, so its result shares nothing with the input
InputRead(h, value) == ResolveRefs(h, value)

\* the caller's objects, before any call
InitAlias ==
    /\ path = Ref(1)
    /\ input \in {Undefined, Ref(2)}
    /\ pathParams \in {Undefined, Arr(<<[pathIndex |-> 0, params |-> Ref(3)]>>)}
    /\ NoResults
    /\ heap \in AliasHeaps
    /\ stack = <<>>
    /\ outcome = NoCall

\* getQueryKey with the caller's objects: `[path, meta]` holds the path array
\* itself
GetQueryKeyByRef(type) ==
    /\ keyRefs = NoCall
    /\ LET returned == getQueryKey([path |-> path, input |-> InputRead(heap, input),
                                    pathParams |-> ParamsRead(heap, pathParams),
                                    type |-> type])
       IN  /\ keyRefs' = returned
           /\ keySnapshot' = ResolveRefs(heap, returned)
    /\ UNCHANGED <<path, input, pathParams, queryVars, sanVars, mutVars, heapVars>>
    /\ UNCHANGED <<relVars, ctxVars, legacyVars>>

\* getMutationKey with the caller's path array: `[opts.path]`
GetMutationKeyByRef ==
    /\ keyRefs = NoCall
    /\ LET returned == getMutationKey([path |-> path])
       IN  /\ keyRefs' = returned
           /\ keySnapshot' = ResolveRefs(heap, returned)
    /\ UNCHANGED <<path, input, pathParams, queryVars, sanVars, mutVars, heapVars>>
    /\ UNCHANGED <<relVars, ctxVars, legacyVars>>

\* the caller pushes a segment onto its path array
PushPath ==
    /\ Len(heap[path.a].e) < MaxSegments
    /\ heap' = [heap EXCEPT ![path.a] = Arr(Append(heap[path.a].e, Str("post")))]
    /\ UNCHANGED <<path, input, pathParams, queryVars, sanVars, mutVars, stack, outcome>>
    /\ UNCHANGED restVars

\* the caller assigns a field of its input object
SetInputField ==
    /\ input # Undefined
    /\ ~HasKey(heap[input.a], "page")
    /\ heap' = [heap EXCEPT ![input.a] = Obj(Spread(heap[input.a].o, "page" :> Num(2)))]
    /\ UNCHANGED <<path, input, pathParams, queryVars, sanVars, mutVars, stack, outcome>>
    /\ UNCHANGED restVars

\* the caller assigns a parameter of its params object
SetParam ==
    /\ pathParams # Undefined
    /\ ~HasKey(heap[3], "slug")
    /\ heap' = [heap EXCEPT ![3] = Obj(Spread(heap[3].o, "slug" :> Str("a")))]
    /\ UNCHANGED <<path, input, pathParams, queryVars, sanVars, mutVars, stack, outcome>>
    /\ UNCHANGED restVars

\* the caller assigns a field of an object that is a parameter value
SetParamValueField ==
    /\ pathParams # Undefined
    /\ heap[4].o["role"] = Str("a")
    /\ heap' = [heap EXCEPT ![4] = Obj(Spread(heap[4].o, "role" :> Str("b")))]
    /\ UNCHANGED <<path, input, pathParams, queryVars, sanVars, mutVars, stack, outcome>>
    /\ UNCHANGED restVars

\* a caller builds a key
GetQueryKey(type) ==
    /\ key = NoCall
    /\ keyType' = type
    /\ key' = getQueryKey([path |-> path, input |-> input,
                          pathParams |-> pathParams, type |-> type])
    /\ UNCHANGED <<path, input, pathParams, optsArg, options, calls, fetchLog>>
    /\ UNCHANGED <<sanVars, mutVars, heapVars, restVars>>

\* a caller builds a second key from the same path, input and pathParams
GetQueryKeyOtherType(type) ==
    /\ key # NoCall
    /\ key2 = NoCall
    /\ pathParams2' = pathParams
    /\ keyType2' = type
    /\ key2' = getQueryKey([path |-> path, input |-> input,
                           pathParams |-> pathParams, type |-> type])
    /\ UNCHANGED <<path, input, pathParams, queryVars, sanVars, mutVars, heapVars>>
    /\ UNCHANGED <<ctxVars, aliasVars, legacyVars>>

\* an EdenProvider of a factory is rendered for the first time
MountProvider(factory, client, queryClient) ==
    /\ providerProps = NoCall
    /\ Len(hookLog) < MaxEvents
    /\ LET props == [factory |-> factory, client |-> client, queryClient |-> queryClient]
           rendered == EdenProviderRender(NoCall, props, proxyCount)
       IN  /\ providerProps' = props
           /\ memo' = rendered.memo
           /\ proxyCount' = rendered.count
           /\ hookLog' = Append(hookLog, [ev |-> "mount", props |-> props])
    /\ UNCHANGED <<path, input, pathParams, queryVars, sanVars, mutVars, heapVars>>
    /\ UNCHANGED <<relVars, aliasVars, legacyVars>>

\* the rendered provider renders again, with the same or other props
RerenderProvider(client, queryClient) ==
    /\ providerProps # NoCall
    /\ Len(hookLog) < MaxEvents
    /\ LET props == [providerProps EXCEPT !.client = client, !.queryClient = queryClient]
           rendered == EdenProviderRender(memo, props, proxyCount)
       IN  /\ providerProps' = props
           /\ memo' = rendered.memo
           /\ proxyCount' = rendered.count
           /\ hookLog' = Append(hookLog, [ev |-> "render", props |-> props])
    /\ UNCHANGED <<path, input, pathParams, queryVars, sanVars, mutVars, heapVars>>
    /\ UNCHANGED <<relVars, aliasVars, legacyVars>>

\* the provider leaves the tree, and its memo with it
UnmountProvider ==
    /\ providerProps # NoCall
    /\ Len(hookLog) < MaxEvents
    /\ providerProps' = NoCall
    /\ memo' = NoCall
    /\ hookLog' = Append(hookLog, [ev |-> "unmount"])
    /\ UNCHANGED proxyCount
    /\ UNCHANGED <<path, input, pathParams, queryVars, sanVars, mutVars, heapVars>>
    /\ UNCHANGED <<relVars, aliasVars, legacyVars>>

\* a component below calls useEden of the first factory
UseEden ==
    /\ Len(hookLog) < MaxEvents
    /\ hookLog' = Append(hookLog,
                         [ev |-> "useEden",
                          provider |-> providerProps,
                          outcome |-> useEden(UseContext(1, providerProps,
                                                         IF memo = NoCall THEN Null ELSE memo.value))])
    /\ UNCHANGED <<providerProps, memo, proxyCount>>
    /\ UNCHANGED <<path, input, pathParams, queryVars, sanVars, mutVars, heapVars>>
    /\ UNCHANGED <<relVars, aliasVars, legacyVars>>

\* a component below calls useEdenClient of the first factory
UseEdenClient ==
    /\ Len(hookLog) < MaxEvents
    /\ hookLog' = Append(hookLog,
                         [ev |-> "useEdenClient",
                          provider |-> providerProps,
                          outcome |-> useEdenClient(UseContext(1, providerProps,
                                                               IF providerProps = NoCall THEN Null
                                                               ELSE providerProps.client))])
    /\ UNCHANGED <<providerProps, memo, proxyCount>>
    /\ UNCHANGED <<path, input, pathParams, queryVars, sanVars, mutVars, heapVars>>
    /\ UNCHANGED <<relVars, aliasVars, legacyVars>>

\* a caller builds a second key from the same path, input and type and
\* another PositionedParam array
GetQueryKeyOtherParams(params) ==
    /\ key # NoCall
    /\ key2 = NoCall
    /\ pathParams2' = params
    /\ keyType2' = keyType
    /\ key2' = getQueryKey([path |-> path, input |-> input,
                           pathParams |-> params, type |-> keyType])
    /\ UNCHANGED <<path, input, pathParams, queryVars, sanVars, mutVars, heapVars>>
    /\ UNCHANGED <<ctxVars, aliasVars, legacyVars>>

\* a caller builds query options
EdenQueryOptions(opts) ==
    /\ options = NoCall
    /\ optsArg' = opts
    /\ options' = edenQueryOptions([path |-> path, input |-> input,
                                    pathParams |-> pathParams,
                                    fetch |-> fetchFn, opts |-> opts])
    /\ fetchLog' = fetchLog \o FactoryFetchCalls(path, input, opts)
    /\ UNCHANGED <<path, input, pathParams, keyType, key, calls>>
    /\ UNCHANGED <<sanVars, mutVars, heapVars, restVars>>

\* the cache engine invokes options.queryFn, which is possible only when it
\* is a function; fetch settles either way and queryFn with it
InvokeQueryFn(signal, fetchOutcome) ==
    /\ options # NoCall
    /\ options.o["queryFn"].t = "function"
    /\ Len(calls) + Len(mutCalls) < MaxCalls
    /\ calls' = Append(calls,
                       [fetch |-> QueryFnFetchArgs(options.o["queryFn"], [signal |-> signal]),
                        context |-> [signal |-> signal],
                        fetchSettled |-> fetchOutcome,
                        settled |-> QueryFnSettle(fetchOutcome)])
    /\ fetchLog' = fetchLog \o QueryFnFetchCalls(options.o["queryFn"], [signal |-> signal])
    /\ UNCHANGED <<path, input, pathParams, keyType, key, optsArg, options>>
    /\ UNCHANGED <<sanVars, mutVars, heapVars, restVars>>

\* a caller builds a mutation key
GetMutationKey ==
    /\ mutationKey = NoCall
    /\ mutationKey' = getMutationKey([path |-> path])
    /\ UNCHANGED <<path, input, pathParams, queryVars, sanVars, heapVars, restVars>>
    /\ UNCHANGED <<mutation, mutCalls, mutateLog, mutationOptsArg>>

\* a caller builds mutation options
EdenMutationOptions(mutate, opts) ==
    /\ mutation = NoCall
    /\ mutation' = edenMutationOptions([path |-> path, mutate |-> mutate, opts |-> opts])
    /\ mutateLog' = mutateLog \o FactoryMutateCalls(path, mutate, opts)
    /\ UNCHANGED <<path, input, pathParams, queryVars, sanVars, heapVars, restVars>>
    /\ mutationOptsArg' = opts
    /\ UNCHANGED <<mutationKey, mutCalls>>

\* the cache engine invokes mutation.mutationFn with the variables of the
\* mutation; mutate settles and mutationFn with it
InvokeMutationFn(arg) ==
    /\ mutation # NoCall
    /\ Len(calls) + Len(mutCalls) < MaxCalls
    /\ LET fn == mutation.o["mutationFn"]
           mutateOutcome == MutateOutcome(fn.env.mutate, MutationFnMutateArgs(fn, arg).input)
       IN  /\ mutCalls' = Append(mutCalls,
                                 [input |-> arg,
                                  mutate |-> MutationFnMutateArgs(fn, arg),
                                  mutateSettled |-> mutateOutcome,
                                  settled |-> MutationFnSettle(mutateOutcome)])
           /\ mutateLog' = mutateLog \o MutationFnMutateCalls(fn, arg)
    /\ UNCHANGED <<path, input, pathParams, queryVars, sanVars, heapVars, restVars>>
    /\ UNCHANGED <<mutationKey, mutation, mutationOptsArg>>

\* the same caller builds query options with the earlier version, from the
\* same path, input and opts
EdenQueryOptionsLegacy ==
    /\ options # NoCall
    /\ legacyOptions = NoCall
    /\ legacyOptions' = edenQueryOptionsLegacy([path |-> path, input |-> input,
                                                fetch |-> fetchFn, opts |-> optsArg])
    /\ UNCHANGED legacyCalls
    /\ UNCHANGED <<path, input, pathParams, queryVars, sanVars, mutVars, heapVars>>
    /\ UNCHANGED <<relVars, ctxVars, aliasVars>>

\* the cache engine invokes the queryFn of the earlier version
InvokeLegacyQueryFn(signal) ==
    /\ legacyOptions # NoCall
    /\ legacyOptions.o["queryFn"].t = "function"
    /\ Len(legacyCalls) < MaxCalls
    /\ legacyCalls' = Append(legacyCalls,
                             [fetch |-> QueryFnFetchArgs(legacyOptions.o["queryFn"],
                                                         [signal |-> signal]),
                              context |-> [signal |-> signal]])
    /\ UNCHANGED legacyOptions
    /\ UNCHANGED <<path, input, pathParams, queryVars, sanVars, mutVars, heapVars>>
    /\ UNCHANGED <<relVars, ctxVars, aliasVars>>

Next ==
    \/ \E type \in QueryTypes : GetQueryKey(type)
    \/ \E opts \in OptsArgs : EdenQueryOptions(opts)

NextFn ==
    \/ \E opts \in OptsArgs : EdenQueryOptions(opts)
    \/ \E signal \in Signals, fetchOutcome \in FetchOutcomes : InvokeQueryFn(signal, fetchOutcome)
    \/ GetMutationKey
    \/ \E mutate \in MutateFns, opts \in MutationOptsArgs : EdenMutationOptions(mutate, opts)
    \/ \E arg \in MutationInputs : InvokeMutationFn(arg)

NextFlat ==
    \E type \in QueryTypes : GetQueryKey(type)

NextType ==
    \/ \E type \in QueryTypes : GetQueryKey(type)
    \/ \E type \in QueryTypes : GetQueryKeyOtherType(type)

NextOpts ==
    \/ \E opts \in OverrideArgs : EdenQueryOptions(opts)
    \/ \E mutate \in MutateFns, opts \in MutationOverrideArgs : EdenMutationOptions(mutate, opts)

NextCtx ==
    \/ \E factory \in Factories, client \in Clients, queryClient \in QueryClients :
           MountProvider(factory, client, queryClient)
    \/ \E client \in Clients, queryClient \in QueryClients : RerenderProvider(client, queryClient)
    \/ UnmountProvider
    \/ UseEden
    \/ UseEdenClient

NextSplit ==
    \/ \E type \in {Undefined, Str("infinite")} : GetQueryKey(type)
    \/ \E params \in SplitArgs : GetQueryKeyOtherParams(params)

NextAlias ==
    \/ \E type \in {Undefined, Str("infinite")} : GetQueryKeyByRef(type)
    \/ GetMutationKeyByRef
    \/ PushPath
    \/ SetInputField
    \/ SetParam
    \/ SetParamValueField

NextLegacy ==
    \/ \E opts \in OptsArgs \cup OverrideArgs : EdenQueryOptions(opts)
    \/ EdenQueryOptionsLegacy
    \/ \E signal \in Signals : InvokeQueryFn(signal, [status |-> "fulfilled", value |-> Str("world")])
    \/ \E signal \in Signals : InvokeLegacyQueryFn(signal)

NextSan ==
    \/ SanitizeInput
    \/ SanitizeAgain

NextHeap ==
    \/ SanitizeCall
    \/ SanitizeSkipKey
    \/ SanitizeRecurse
    \/ SanitizeOverflow
    \/ SanitizeReturn

Spec == Init /\ [][Next]_vars

SpecFlat == InitFlat /\ [][NextFlat]_vars

SpecType == InitType /\ [][NextType]_vars

SpecOpts == InitOpts /\ [][NextOpts]_vars

SpecCtx == InitCtx /\ [][NextCtx]_vars

SpecSplit == InitSplit /\ [][NextSplit]_vars

SpecAlias == InitAlias /\ [][NextAlias]_vars

SpecLegacy == InitLegacy /\ [][NextLegacy]_vars

SpecSan == InitSan /\ [][NextSan]_vars

SpecHeap == InitHeap /\ [][NextHeap]_vars

SpecFn == InitFn /\ [][NextFn]_vars

\* ------------------------------------------------------------------------
\* Vocabulary of the properties
\* ------------------------------------------------------------------------
CursorFields == {"cursor", "direction"}

\* the caller gave no path parameter: no array, or only empty params maps
NoPathParams ==
    \/ pathParams = Undefined
    \/ \A i \in DOMAIN pathParams.e : DOMAIN pathParams.e[i].params = {}

NonEmptyPlainObject(value) == isObject(value) /\ DOMAIN value.o # {}

KeyBuilt == key # NoCall
OptionsBuilt == options # NoCall

\* the meta of a two-element key, as a map
MetaOf(k) == k.e[2].o

\* the key made of a path and the entries given as a map
KeyOf(p, meta) == Arr(<<p, Obj(meta)>>)

\* the map holding the entries of m whose value is not Absent
Absent == [t |-> "absent"]
Present(m) == [k \in {k \in DOMAIN m : m[k] # Absent} |-> m[k]]

\* C1: for a non-empty plain-object input and no path params, the query key
\* is exactly [path, {input: sanitize(input), type: "query"}], from
\* getQueryKey with type "query" and from edenQueryOptions alike.
C1_QueryKeyOfObjectInput ==
    (NonEmptyPlainObject(input) /\ NoPathParams) =>
        LET expected == KeyOf(path, "input" :> sanitizeInput(input) @@ "type" :> Str("query"))
        IN  /\ (KeyBuilt /\ keyType = Str("query")) => key = expected
            /\ OptionsBuilt => options.o["queryKey"] = expected

C1_Witness ==
    /\ KeyBuilt /\ keyType = Str("query") /\ OptionsBuilt
    /\ NonEmptyPlainObject(input) /\ pathParams = Undefined
    /\ sanitizeInput(input) # input
    /\ key = options.o["queryKey"]

\* C2: for type "infinite", plain-object inputs that differ only in their
\* top-level cursor and direction fields give equal keys.
C2_CursorInvariantKey ==
    (KeyBuilt /\ keyType = Str("infinite") /\ isObject(input)) =>
        \A other \in Inputs :
            (isObject(other) /\ Rest(other.o, CursorFields) = Rest(input.o, CursorFields)) =>
                getQueryKey([path |-> path, input |-> other,
                             pathParams |-> pathParams, type |-> Str("infinite")]) = key

\* what C3 expects of an infinite key whose sanitized input has a cursor or
\* a direction field
C3_StrippedKey ==
    LET stripped == Rest(sanitizeInput(input).o, CursorFields)
        flat == flattenPathParams(pathParams)
    IN  KeyOf(path, Present("type" :> Str("infinite")
                            @@ "input" :> (IF DOMAIN stripped # {} THEN Obj(stripped) ELSE Absent)
                            @@ "pathParams" :> (IF flat # Undefined THEN flat ELSE Absent)))

C3_HasCursorField ==
    /\ isObject(sanitizeInput(input))
    /\ DOMAIN sanitizeInput(input).o \cap CursorFields # {}

C3_NotPlainObject == input.t \in {"string", "number", "array", "null"}

\* C3 as stated: an infinite key of an input with cursor/direction carries
\* the sanitized input without the two fields; an input that is no plain
\* object is placed in the key as is.
C3_InfiniteKeyAsStated ==
    (KeyBuilt /\ keyType = Str("infinite")) =>
        /\ C3_HasCursorField => key = C3_StrippedKey
        /\ C3_NotPlainObject => (Len(key.e) = 2 /\ "input" \in DOMAIN MetaOf(key)
                                 /\ MetaOf(key)["input"] = input)

\* C3 as amended: an input that is no plain object is placed in the key
\* sanitized, with no cursor/direction stripping.
C3_InfiniteKeyAmended ==
    (KeyBuilt /\ keyType = Str("infinite")) =>
        /\ C3_HasCursorField => key = C3_StrippedKey
        /\ C3_NotPlainObject => (Len(key.e) = 2 /\ "input" \in DOMAIN MetaOf(key)
                                 /\ MetaOf(key)["input"] = sanitizeInput(input))

C3_Witness ==
    /\ KeyBuilt /\ keyType = Str("infinite")
    /\ isObject(input) /\ DOMAIN input.o = {"cursor", "__proto__"}
    /\ flattenPathParams(pathParams) # Undefined
    /\ DOMAIN MetaOf(key) = {"type", "pathParams"}

\* the key of a skipped query: the path, and the flattened path params if any
SkipKeyExpected ==
    LET flat == flattenPathParams(pathParams)
    IN  IF flat = Undefined THEN Arr(<<path>>) ELSE KeyOf(path, "pathParams" :> flat)

\* C4: for skipToken input getQueryKey returns [path], or
\* [path, {pathParams}] when the flattened params are non-empty, whatever
\* the type; the meta never has input or type.
C4_SkipKey ==
    (KeyBuilt /\ input = skipToken) =>
        /\ key = SkipKeyExpected
        /\ Len(key.e) = 2 => DOMAIN MetaOf(key) \cap {"input", "type"} = {}

C4_Witness ==
    /\ KeyBuilt /\ input = skipToken /\ keyType = Str("infinite")
    /\ Len(key.e) = 2 /\ DOMAIN MetaOf(key) = {"pathParams"}

\* C5: for skipToken input, the queryKey of edenQueryOptions is the key
\* getQueryKey returns for skipToken with the same path and pathParams.
C5_SkipOptionsKey ==
    (OptionsBuilt /\ input = skipToken) =>
        /\ options.o["queryKey"] =
               getQueryKey([path |-> path, input |-> skipToken,
                            pathParams |-> pathParams, type |-> Str("query")])
        /\ NoPathParams => options.o["queryKey"] = Arr(<<path>>)

\* C6: for skipToken input queryFn is skipToken, not a function, and fetch
\* is never invoked; for any other input queryFn is a function around fetch.
C6_SkipNeverFetches ==
    OptionsBuilt =>
        IF input = skipToken
        THEN options.o["queryFn"] = skipToken /\ calls = <<>>
        ELSE /\ options.o["queryFn"].t = "function"
             /\ \A i \in DOMAIN calls : calls[i].fetch.fn = fetchFn

C6_Witness ==
    /\ OptionsBuilt /\ input = skipToken
    /\ options.o["queryFn"] = skipToken
    /\ ~ENABLED (\E signal \in Signals, fetchOutcome \in FetchOutcomes :
                    InvokeQueryFn(signal, fetchOutcome))

\* C7: for undefined input, the queryKey of edenQueryOptions is [path], or
\* [path, {pathParams}] when path params are given.
C7_UndefinedInputOptionsKey ==
    (OptionsBuilt /\ input = Undefined) =>
        options.o["queryKey"] = SkipKeyExpected

\* the type discriminator is in the meta of every query/infinite key
C8_TypeAlwaysInMeta ==
    (KeyBuilt /\ keyType \in {Str("query"), Str("infinite")} /\ input # skipToken) =>
        /\ Len(key.e) = 2
        /\ "type" \in DOMAIN MetaOf(key)
        /\ MetaOf(key)["type"] = keyType
        /\ (keyType = Str("query") /\ input = Undefined /\ NoPathParams) =>
               key = KeyOf(path, "type" :> Str("query"))

C8_InfiniteNoCursor ==
    /\ KeyBuilt /\ keyType = Str("infinite")
    /\ input \notin {skipToken, Undefined}
    /\ isObject(input) => DOMAIN input.o \cap CursorFields = {}
    /\ NoPathParams

\* C8 as stated: the infinite key of an input I without cursor/direction is
\* [path, {input: I, type: "infinite"}].
C8_TypeDiscriminatorAsStated ==
    /\ C8_TypeAlwaysInMeta
    /\ C8_InfiniteNoCursor => key = KeyOf(path, "input" :> input @@ "type" :> Str("infinite"))

\* C8 as amended: the infinite key of an input I without cursor/direction
\* is [path, {input: sanitize(I), type: "infinite"}].
C8_TypeDiscriminatorAmended ==
    /\ C8_TypeAlwaysInMeta
    /\ C8_InfiniteNoCursor =>
           key = KeyOf(path, "input" :> sanitizeInput(input) @@ "type" :> Str("infinite"))

C8_Witness ==
    /\ KeyBuilt /\ keyType = Str("query") /\ input = Undefined /\ pathParams = Undefined
    /\ key = KeyOf(path, "type" :> Str("query"))

\* C9: every key is [path] or [path, meta] with a non-empty meta object,
\* its first element the path given; with input, pathParams and type all
\* absent the key is exactly [path].
C9_KeyShape ==
    KeyBuilt =>
        /\ key.t = "array"
        /\ Len(key.e) \in {1, 2}
        /\ key.e[1] = path
        /\ Len(key.e) = 2 => (isObject(key.e[2]) /\ DOMAIN MetaOf(key) # {})
        /\ (input = Undefined /\ pathParams = Undefined /\ keyType = Undefined) =>
               key = Arr(<<path>>)

C9_Witness ==
    /\ KeyBuilt /\ input = Undefined /\ keyType = Str("any")
    /\ pathParams # Undefined /\ NoPathParams
    /\ key = Arr(<<path>>)

\* C10: no meta holds an input or pathParams entry whose value is undefined
\* or an empty object.
C10_MetaEntriesNonEmpty ==
    (KeyBuilt /\ Len(key.e) = 2) =>
        \A k \in DOMAIN MetaOf(key) \cap {"input", "pathParams"} :
            MetaOf(key)[k] \notin {Undefined, Obj(EmptyMap)}

\* the access paths of a value: the sequences of property names and array
\* indices that lead to a value inside it, the empty path leading to itself
RECURSIVE AccessPaths(_)
AccessPaths(value) ==
    {<<>>} \cup
    CASE value.t = "object" ->
            UNION {{<<[k |-> name]>> \o p : p \in AccessPaths(value.o[name])} :
                     name \in DOMAIN value.o}
      [] value.t = "array" ->
            UNION {{<<[i |-> i]>> \o p : p \in AccessPaths(value.e[i])} :
                     i \in DOMAIN value.e}
      [] OTHER -> {}

\* the value an access path leads to
RECURSIVE ValueAt(_, _)
ValueAt(value, p) ==
    IF p = <<>>
    THEN value
    ELSE IF "k" \in DOMAIN Head(p)
         THEN ValueAt(value.o[Head(p).k], Tail(p))
         ELSE ValueAt(value.e[Head(p).i], Tail(p))

\* what a value is, its parts left aside: an object, an array of some
\* length, or the primitive itself
Shape(value) ==
    CASE value.t = "object" -> [t |-> "object"]
      [] value.t = "array" -> [t |-> "array", len |-> Len(value.e)]
      [] OTHER -> value

\* the path goes through no dangerous key
CleanPath(p) == \A n \in DOMAIN p : "k" \in DOMAIN p[n] => p[n].k \notin DANGEROUS_KEYS

\* C11: the sanitized value holds exactly what the value holds along the
\* access paths that go through no __proto__, constructor or prototype key
\* (at any depth, through arrays as well), each with the same primitive or
\* the same kind of container and, for arrays, the same length and order.
C11_SanitizeRemovesDangerousKeys ==
    sanitized # NoCall =>
        /\ AccessPaths(sanitized) = {p \in AccessPaths(input) : CleanPath(p)}
        /\ \A p \in AccessPaths(sanitized) :
               Shape(ValueAt(sanitized, p)) = Shape(ValueAt(input, p))

C11_Witness ==
    /\ sanitized # NoCall
    /\ input.t = "array"
    /\ \E p \in AccessPaths(input) : ~CleanPath(p) /\ Len(p) = 2
    /\ \E p \in AccessPaths(sanitized) : Len(p) = 2
    /\ sanitized # input

\* C12: sanitizeInput returns a value, and never throws, for every value a
\* caller can hold, graphs that refer to themselves included.
C12_SanitizeTotal ==
    outcome # NoCall => outcome.status = "returned"

\* C13: sanitizing a sanitized value changes nothing.
C13_SanitizeIdempotent ==
    sanitizedTwice # NoCall => sanitizedTwice = sanitized

C13_Witness ==
    /\ sanitizedTwice # NoCall
    /\ sanitized # input
    /\ \E p \in AccessPaths(input) : ~CleanPath(p) /\ Len(p) = 3

\* the parameter names the entries give, dangerous names left out
ParamNames ==
    IF pathParams = Undefined THEN {}
    ELSE UNION {DOMAIN pathParams.e[i].params : i \in DOMAIN pathParams.e} \ DANGEROUS_KEYS

\* the position of the last entry that holds the name
LastWith(name) ==
    CHOOSE i \in DOMAIN pathParams.e :
        /\ name \in DOMAIN pathParams.e[i].params
        /\ \A j \in DOMAIN pathParams.e : name \in DOMAIN pathParams.e[j].params => j <= i

\* C14: the key's pathParams entry maps every non-dangerous parameter name to
\* the value of the last entry holding it, whatever the pathIndex values, and
\* the key has no pathParams entry when there is no such name.
C14_FlattenLaterWins ==
    KeyBuilt =>
        IF ParamNames = {}
        THEN Len(key.e) = 2 => "pathParams" \notin DOMAIN MetaOf(key)
        ELSE /\ Len(key.e) = 2
             /\ "pathParams" \in DOMAIN MetaOf(key)
             /\ MetaOf(key)["pathParams"] =
                    Obj([name \in ParamNames |-> pathParams.e[LastWith(name)].params[name]])

C14_Witness ==
    /\ KeyBuilt
    /\ pathParams # Undefined
    /\ Len(pathParams.e) = 2
    /\ pathParams.e[1].pathIndex = 1
    /\ pathParams.e[2].pathIndex = 0
    /\ pathParams.e[1].params = ("id" :> Str("1") @@ "constructor" :> Str("x"))
    /\ pathParams.e[2].params = ("id" :> Str("2") @@ "slug" :> Str("a"))
    /\ MetaOf(key)["pathParams"] = Obj("id" :> Str("2") @@ "slug" :> Str("a"))

\* C15: the mutation key, from getMutationKey and in the options of
\* edenMutationOptions, is the one-element array holding the path, whatever
\* the mutate callback, the overrides, the path params and the calls made.
C15_MutationKeyIsPath ==
    /\ mutationKey # NoCall => mutationKey = Arr(<<path>>)
    /\ mutation # NoCall =>
           /\ mutation.o["mutationKey"] = Arr(<<path>>)
           /\ Len(mutation.o["mutationKey"].e) = 1

C15_Witness ==
    /\ mutationKey # NoCall
    /\ mutation # NoCall
    /\ pathParams # Undefined
    /\ "retry" \in DOMAIN mutation.o
    /\ Len(mutCalls) = 2
    /\ mutCalls[1].input # mutCalls[2].input

\* the flag opts.eden.abortOnUnmount of the options last built
AbortOnUnmount == OptionalGet(OptionalGet(optsArg, "eden"), "abortOnUnmount")

\* C16: fetch receives the signal of the context as second argument exactly
\* when opts.eden.abortOnUnmount is true, and undefined otherwise.
C16_SignalOnlyOnOptIn ==
    \A i \in DOMAIN calls :
        /\ AbortOnUnmount = Bool(TRUE) => calls[i].fetch.signal = calls[i].context.signal
        /\ AbortOnUnmount # Bool(TRUE) => calls[i].fetch.signal = Undefined

C16_Witness ==
    /\ Len(calls) = 2
    /\ AbortOnUnmount = Bool(TRUE)
    /\ calls[1].context.signal # calls[2].context.signal
    /\ calls[1].fetch.signal = calls[1].context.signal
    /\ calls[2].fetch.signal = calls[2].context.signal

\* C17: building options calls neither fetch nor mutate, and every
\* invocation of queryFn or mutationFn makes exactly one call of its
\* callback: the callbacks were called as often as the wrappers.
C17_OneCallPerInvocation ==
    /\ Len(fetchLog) = Len(calls)
    /\ \A i \in DOMAIN calls : fetchLog[i] = calls[i].fetch
    /\ Len(mutateLog) = Len(mutCalls)
    /\ \A i \in DOMAIN mutCalls : mutateLog[i] = mutCalls[i].mutate

C17_Witness ==
    /\ OptionsBuilt
    /\ mutation # NoCall
    /\ Len(calls) = 1
    /\ Len(mutCalls) = 1
    /\ Len(fetchLog) = 1
    /\ Len(mutateLog) = 1

\* C18: queryFn settles as fetch settled: fulfilled with the same value or
\* rejected with the same reason.
C18_QueryFnSettlesAsFetch ==
    \A i \in DOMAIN calls : calls[i].settled = calls[i].fetchSettled

C18_Witness ==
    /\ Len(calls) = 2
    /\ calls[1].fetchSettled.status = "rejected"
    /\ calls[1].settled = [status |-> "rejected", reason |-> Str("Server error")]
    /\ calls[2].settled = [status |-> "fulfilled", value |-> Str("world")]

\* C19: mutationFn calls the mutate callback it was built with, with the
\* input it was given, and settles as mutate settled; with a mutate that
\* answers {id: "1", ...body}, the input {name: "J"} gives {id: "1", name: "J"}.
C19_MutationFnPassesThrough ==
    \A i \in DOMAIN mutCalls :
        /\ mutCalls[i].mutate.fn = mutation.o["mutationFn"].env.mutate
        /\ mutCalls[i].mutate.input = mutCalls[i].input
        /\ mutCalls[i].settled = MutateOutcome(mutCalls[i].mutate.fn, mutCalls[i].input)
        /\ (mutCalls[i].mutate.fn.name = "create" /\ mutCalls[i].input = Obj("name" :> Str("J"))) =>
               mutCalls[i].settled =
                   [status |-> "fulfilled", value |-> Obj("id" :> Str("1") @@ "name" :> Str("J"))]
        /\ mutCalls[i].mutate.fn.name = "error" =>
               mutCalls[i].settled =
                   [status |-> "rejected",
                    reason |-> Obj("status" :> Num(400) @@ "message" :> Str("Bad Request"))]

C19_Witness ==
    /\ Len(mutCalls) = 1
    /\ mutCalls[1].input = Obj("name" :> Str("J"))
    /\ mutCalls[1].settled =
           [status |-> "fulfilled", value |-> Obj("id" :> Str("1") @@ "name" :> Str("J"))]

\* the invocations of mutationFn without an argument, and with {}
NoArgumentCalls == {i \in DOMAIN mutCalls : mutCalls[i].input = Undefined}
EmptyObjectCalls == {i \in DOMAIN mutCalls : mutCalls[i].input = Obj(EmptyMap)}

\* C20: an invocation of mutationFn without an argument and one with {} hand
\* the same input to mutate and settle with the same result.
C20_AbsentAsEmptyAsStated ==
    \A i \in NoArgumentCalls, j \in EmptyObjectCalls :
        /\ mutCalls[i].mutate.input = mutCalls[j].mutate.input
        /\ mutCalls[i].settled = mutCalls[j].settled

\* C20, amended: mutationFn passes its argument through unchanged, so mutate
\* receives undefined for no argument and {} for an empty object; the two
\* invocations settle with the same result when mutate itself settles the
\* same for undefined and for {}.
C20_AbsentPassedUnchanged ==
    \A i \in NoArgumentCalls, j \in EmptyObjectCalls :
        /\ mutCalls[i].mutate.input = Undefined
        /\ mutCalls[j].mutate.input = Obj(EmptyMap)
        /\ MutateOutcome(mutCalls[i].mutate.fn, Undefined)
               = MutateOutcome(mutCalls[j].mutate.fn, Obj(EmptyMap))
           => mutCalls[i].settled = mutCalls[j].settled

C20_Witness ==
    /\ NoArgumentCalls = {1}
    /\ EmptyObjectCalls = {2}
    /\ mutCalls[1].mutate.input = Undefined
    /\ mutCalls[2].mutate.input = Obj(EmptyMap)
    /\ mutCalls[1].settled = [status |-> "fulfilled", value |-> Obj("id" :> Str("1"))]
    /\ mutCalls[2].settled = mutCalls[1].settled

\* the meta of a key as a map, empty for a one-element key
MetaOrEmpty(k) == IF Len(k.e) = 2 THEN k.e[2].o ELSE EmptyMap

\* both keys of the two calls are there
TwoKeys == key # NoCall /\ key2 # NoCall

\* every entry of the meta of k is in the meta of l with an equal value
MetaContained(k, l) ==
    \A name \in DOMAIN MetaOrEmpty(k) :
        /\ name \in DOMAIN MetaOrEmpty(l)
        /\ MetaOrEmpty(l)[name] = MetaOrEmpty(k)[name]

\* the sanitized input is an object with a top-level cursor or direction
InputHasCursorField ==
    /\ isObject(input)
    /\ DOMAIN sanitizeInput(input).o \cap CursorFields # {}

\* C21: the key built with type 'any' has no type entry and equals the key
\* built without a type, and each of its meta entries is, with an equal
\* value, in the keys built with 'query' and with 'infinite' from the same
\* path, input and pathParams.
C21_AnyKeyAsStated ==
    (TwoKeys /\ keyType = Str("any")) =>
        /\ "type" \notin DOMAIN MetaOrEmpty(key)
        /\ keyType2 = Undefined => key2 = key
        /\ keyType2 \in {Str("query"), Str("infinite")} => MetaContained(key, key2)

\* C21, amended: as stated for the keys built without a type and with
\* 'query'; for 'infinite' as stated unless the input is an object with a
\* top-level cursor or direction field, and then the pathParams entry is the
\* same and the input entry is that of the 'any' key without those fields,
\* absent when no field remains.
C21_AnyKeyAmended ==
    (TwoKeys /\ keyType = Str("any")) =>
        /\ "type" \notin DOMAIN MetaOrEmpty(key)
        /\ keyType2 = Undefined => key2 = key
        /\ keyType2 = Str("query") => MetaContained(key, key2)
        /\ (keyType2 = Str("infinite") /\ ~InputHasCursorField) => MetaContained(key, key2)
        /\ (keyType2 = Str("infinite") /\ InputHasCursorField) =>
               LET rest == Rest(MetaOrEmpty(key)["input"].o, CursorFields)
               IN  MetaOrEmpty(key2) =
                       Present("type" :> Str("infinite")
                               @@ "input" :> (IF DOMAIN rest = {} THEN Absent ELSE Obj(rest))
                               @@ "pathParams" :> (IF "pathParams" \in DOMAIN MetaOrEmpty(key)
                                                   THEN MetaOrEmpty(key)["pathParams"]
                                                   ELSE Absent))

C21_Witness ==
    /\ TwoKeys
    /\ keyType = Str("any")
    /\ keyType2 = Str("infinite")
    /\ pathParams # Undefined
    /\ input = Obj("limit" :> Num(10) @@ "direction" :> Str("forward"))
    /\ key = KeyOf(path, "input" :> input @@ "pathParams" :> Obj("id" :> Str("1")))
    /\ MetaOrEmpty(key2)["input"] = Obj("limit" :> Num(10))

\* the fields of an opts argument, none when it is absent
FieldsOf(opts) == IF opts.t = "object" THEN opts.o ELSE EmptyMap

\* every field of given whose name is not in reserved is, unchanged, in result
Forwarded(given, reserved, result) ==
    \A name \in DOMAIN given \ reserved :
        name \in DOMAIN result /\ result[name] = given[name]

\* C22: the result of edenQueryOptions and of edenMutationOptions holds
\* every override field unchanged, except that queryKey, queryFn (mutationKey,
\* mutationFn) and eden are the values the library computes, also when the
\* overrides have fields of those names.
C22_OverridesForwarded ==
    /\ OptionsBuilt =>
           /\ Forwarded(FieldsOf(optsArg), {"queryKey", "queryFn", "eden"}, options.o)
           /\ DOMAIN options.o =
                  (DOMAIN FieldsOf(optsArg)) \cup {"queryKey", "queryFn", "eden"}
           /\ options.o["queryKey"].e[1] = path
           /\ options.o["queryFn"] \in {skipToken, QueryFnClosure([input |-> input, opts |-> optsArg, fetch |-> fetchFn])}
           /\ DOMAIN options.o["eden"].o = {"path"}
           /\ options.o["eden"] # Obj("path" :> Str("custom"))
    /\ mutation # NoCall =>
           /\ Forwarded(FieldsOf(mutationOptsArg), {"mutationKey", "mutationFn", "eden"}, mutation.o)
           /\ DOMAIN mutation.o =
                  (DOMAIN FieldsOf(mutationOptsArg)) \cup {"mutationKey", "mutationFn", "eden"}
           /\ mutation.o["mutationKey"] = Arr(<<path>>)
           /\ mutation.o["mutationFn"].name = "mutationFn"
           /\ DOMAIN mutation.o["eden"].o = {"path"}
           /\ mutation.o["eden"] # Obj("path" :> Str("custom"))

C22_Witness ==
    /\ OptionsBuilt
    /\ mutation # NoCall
    /\ "queryFn" \in DOMAIN FieldsOf(optsArg)
    /\ "mutationFn" \in DOMAIN FieldsOf(mutationOptsArg)
    /\ options.o["retry"] = Num(3)
    /\ mutation.o["retry"] = Num(3)
    /\ options.o["queryFn"] # customFn
    /\ mutation.o["mutationFn"] # customFn

\* C23: eden.path in the result of either factory is the path segments
\* joined with '.', for skip and other inputs, and holds no path-parameter
\* value.
C23_EdenPathJoined ==
    LET Dotted ==
            CASE path = Arr(<<Str("hello")>>) -> "hello"
              [] path = Arr(<<Str("users"), Str("get")>>) -> "users.get"
              [] path = Arr(<<Str("api"), Str("users"), Str("get")>>) -> "api.users.get"
    IN  /\ OptionsBuilt => options.o["eden"] = Obj("path" :> Str(Dotted))
        /\ mutation # NoCall => mutation.o["eden"] = Obj("path" :> Str(Dotted))

C23_Witness ==
    /\ OptionsBuilt
    /\ mutation # NoCall
    /\ input = skipToken
    /\ path = Arr(<<Str("users"), Str("get")>>)
    /\ pathParams = Arr(<<[pathIndex |-> 0, params |-> "id" :> Str("123")]>>)
    /\ options.o["eden"].o["path"] = Str("users.get")
    /\ mutation.o["eden"].o["path"] = Str("users.get")

\* the calls of a hook in the log
HookCalls(hook) == {i \in DOMAIN hookLog : hookLog[i].ev = hook}

\* the call was made below a provider of the factory of the hooks
InsideProvider(i) == hookLog[i].provider # NoCall /\ hookLog[i].provider.factory = 1

\* the message starts with the words
StartsWith(message, words) ==
    Len(message) >= Len(words) /\ SubSeq(message, 1, Len(words)) = words

\* C24: without an enclosing EdenProvider of the same factory useEden and
\* useEdenClient throw an Error whose message starts with the name of the
\* hook and 'must be used within an EdenProvider'; inside one they return the
\* proxy and the client the provider was given, never null.
C24_HooksNeedProvider ==
    /\ \A i \in HookCalls("useEden") :
           IF InsideProvider(i)
           THEN /\ hookLog[i].outcome.status = "returned"
                /\ hookLog[i].outcome.value.t = "proxy"
                /\ hookLog[i].outcome.value.client = hookLog[i].provider.client
           ELSE /\ hookLog[i].outcome.status = "thrown"
                /\ hookLog[i].outcome.error.name = "Error"
                /\ StartsWith(hookLog[i].outcome.error.message,
                              "useEden must be used within an EdenProvider")
    /\ \A i \in HookCalls("useEdenClient") :
           IF InsideProvider(i)
           THEN hookLog[i].outcome = Returned(hookLog[i].provider.client)
           ELSE /\ hookLog[i].outcome.status = "thrown"
                /\ hookLog[i].outcome.error.name = "Error"
                /\ StartsWith(hookLog[i].outcome.error.message,
                              "useEdenClient must be used within an EdenProvider")

C24_Witness ==
    /\ Len(hookLog) = 4
    /\ hookLog[1].ev = "useEden" /\ hookLog[1].outcome.status = "thrown"
    /\ hookLog[2].ev = "mount" /\ hookLog[2].props.factory = 2
    /\ hookLog[3].ev = "useEdenClient" /\ hookLog[3].outcome.status = "thrown"
    /\ hookLog[4].ev = "useEden" /\ hookLog[4].outcome.status = "thrown"

\* the event is a render that gave the provider another client or queryClient
\* than the render before it
PropsChangedAt(k) ==
    /\ hookLog[k].ev = "render"
    /\ \E m \in 1..(k - 1) :
           /\ hookLog[m].ev \in {"mount", "render"}
           /\ \A n \in (m + 1)..(k - 1) : hookLog[n].ev \notin {"mount", "render"}
           /\ hookLog[m].props # hookLog[k].props

\* the provider was the same instance, with the same props, from i to j
SamePropsBetween(i, j) ==
    \A k \in (i + 1)..(j - 1) :
        /\ hookLog[k].ev \notin {"mount", "unmount"}
        /\ ~PropsChangedAt(k)

\* C25: across re-renders of an EdenProvider useEden returns the same proxy
\* as long as client and queryClient are unchanged, and a new proxy is
\* created only at the first render and when one of the two changes.
C25_ProxyMemoized ==
    /\ \A i, j \in HookCalls("useEden") :
           (i < j /\ InsideProvider(i) /\ InsideProvider(j) /\ SamePropsBetween(i, j)) =>
               hookLog[j].outcome = hookLog[i].outcome
    /\ proxyCount <= Cardinality({k \in DOMAIN hookLog :
                                     hookLog[k].ev = "mount" \/ PropsChangedAt(k)})

C25_Witness ==
    /\ Len(hookLog) = 4
    /\ hookLog[1].ev = "mount" /\ hookLog[1].props.factory = 1
    /\ hookLog[2].ev = "useEden"
    /\ hookLog[3].ev = "render" /\ hookLog[3].props = hookLog[1].props
    /\ hookLog[4].ev = "useEden"
    /\ hookLog[4].outcome = hookLog[2].outcome
    /\ hookLog[4].outcome.status = "returned"
    /\ proxyCount = 1

\* the entries of a PositionedParam array, none when it is absent
EntriesOf(params) == IF params = Undefined THEN <<>> ELSE params.e

\* the flattened map of a PositionedParam array: every name that is not
\* dangerous with the value of the last entry holding it
FlatMapOf(params) ==
    LET entries == EntriesOf(params)
        names == UNION {DOMAIN entries[i].params : i \in DOMAIN entries} \ DANGEROUS_KEYS
        last(name) == CHOOSE i \in DOMAIN entries :
                          /\ name \in DOMAIN entries[i].params
                          /\ \A j \in DOMAIN entries :
                                 name \in DOMAIN entries[j].params => j <= i
    IN  [name \in names |-> entries[last(name)].params[name]]

\* C26: for the same path, input and type, the keys of two PositionedParam
\* arrays are equal exactly when the flattened maps of the arrays are equal,
\* whatever the pathIndex values and the split of the names among entries.
C26_KeyFollowsFlatMap ==
    TwoKeys => ((key = key2) <=> (FlatMapOf(pathParams) = FlatMapOf(pathParams2)))

C26_Witness ==
    /\ TwoKeys
    /\ keyType = Str("infinite")
    /\ pathParams = Arr(<<[pathIndex |-> 0, params |-> "id" :> Str("1")],
                          [pathIndex |-> 1, params |-> "slug" :> Str("a")]>>)
    /\ pathParams2 = Arr(<<[pathIndex |-> 0, params |-> "id" :> Str("1") @@ "slug" :> Str("a")]>>)
    /\ key = key2
    /\ MetaOrEmpty(key)["pathParams"] = Obj("id" :> Str("1") @@ "slug" :> Str("a"))

\* C27: no key of getQueryKey has a property named __proto__, constructor or
\* prototype at any depth, in meta.input or in meta.pathParams, whatever
\* the input and the path-parameter values.
C27_NoDangerousKeyInKey ==
    KeyBuilt => \A p \in AccessPaths(key) : CleanPath(p)

\* C28: every invocation of queryFn hands fetch the input the caller gave
\* edenQueryOptions, with its cursor fields and with the keys the key builder
\* removed, so the input in the queryKey can differ from the input fetched.
C28_FetchGetsOriginalInput ==
    \A i \in DOMAIN calls :
        /\ calls[i].fetch.fn = fetchFn
        /\ calls[i].fetch.input = input

C28_Witness ==
    /\ Len(calls) = 2
    /\ input = Obj("__proto__" :> Str("abc") @@ "limit" :> Num(10))
    /\ calls[2].fetch.input = input
    /\ MetaOf(options.o["queryKey"])["input"] = Obj("limit" :> Num(10))

\* C29: a key that was returned does not change when the caller later
\* changes its path array, its input object or its path-parameter objects:
\* the key shares no object with the arguments.
C29_KeyIndependentOfArguments ==
    keyRefs # NoCall => ResolveRefs(heap, keyRefs) = keySnapshot

====
